---------------------------- MODULE Spec2Model ----------------------------
(***************************************************************************)
(* A model of src/rossi_strand/rossi_strand.py: the per-TF pipeline that   *)
(* joins motif intervals against ChExMix reference peaks.                  *)
(*                                                                         *)
(* Data frames are sequences of records (row order is kept), bed files on  *)
(* disk are sequences of field tuples, optional things (a file that may be *)
(* missing) are sets with at most one element, and a Python exception is   *)
(* the value ok = FALSE of a result record.                                *)
(***************************************************************************)
EXTENDS Integers, Sequences, FiniteSets, TLC

VARIABLES
    pc,                 \* position of the running program
    metadata,           \* rows of sheet GEO_GPL19756_GSE147927
    zips,               \* data_dir/{sample_id}_YEP.zip, per sample
    dirs,               \* data_dir/{sample_id}/, per sample
    cxfiles,            \* data_dir/{Tf}_CX.bed, per file name
    written,            \* the to_csv calls made so far, in order
    unique_tfs,         \* run_all_tfs: the names being iterated
    tf_i,               \* run_all_tfs: index of the current name
    attempted,          \* the names main was called with, in order
    caught,             \* the names whose main raised into the except clause
    tf_name,            \* main: its argument
    replicates,         \* main: the replicate table
    rep_i,              \* main: index of the replicate being processed
    chexmix_df,         \* main: the reference peak table
    motif_dfs,          \* the motif tables handed to the join
    combined,           \* the result of the last merge_motif_with_chexmix
    aggregated_results, \* main: the per-replicate tables
    runlog,             \* what the current/last main did
    calls               \* the download_and_extract_zip calls made, in order

vars == <<pc, metadata, zips, dirs, cxfiles, written, unique_tfs, tf_i,
          attempted, caught, tf_name, replicates, rep_i, chexmix_df,
          motif_dfs, combined, aggregated_results, runlog, calls>>

----------------------------------------------------------------------------
(* Bounds of the model.                                                    *)

\* largest genomic coordinate of a row handed to the join
MaxCoord == 2
\* largest motif number a file of a sample folder may carry
MaxMotif == 3
\* largest number of download_and_extract_zip calls of a fetcher run
MaxCalls == 3
\* largest number of rows of the metadata sheet
MaxMetaRows == 2

----------------------------------------------------------------------------
(* Optional values and sequence helpers.                                   *)

None == {}
Some(x) == {x}
The(s) == CHOOSE x \in s : TRUE

SeqsUpTo(S, n) == UNION {[1..k -> S] : k \in 0..n}

RECURSIVE Flatten(_)
Flatten(ss) ==
    IF ss = <<>> THEN <<>> ELSE Head(ss) \o Flatten(Tail(ss))

Range(s) == {s[i] : i \in DOMAIN s}

----------------------------------------------------------------------------
(* Bed files and data frames.                                              *)

\* the column names assigned to a motif frame
MotifColumns == <<"chrom", "start", "end", "col3", "col4", "strand">>

\* the column names assigned to the reference frame
ChexmixColumns == <<"chrom", "start", "end", "name", "score", "strand">>

\* pd.read_csv(file, header=None): a file without a line raises
\* EmptyDataError, otherwise the frame has as many columns as the first line
read_csv(file) ==
    IF file = <<>>
    THEN [ok |-> FALSE, ncols |-> 0, rows |-> <<>>]
    ELSE [ok |-> TRUE, ncols |-> Len(file[1]), rows |-> file]

\* df.columns = names: ValueError when the frame has another number of columns
columns_fit(ncols, names) == ncols = Len(names)

\* read_csv of a motif file, then df.columns = MotifColumns
read_motif_bed(file) ==
    LET r == read_csv(file) IN
    IF ~r.ok \/ ~columns_fit(r.ncols, MotifColumns)
    THEN [ok |-> FALSE, df |-> <<>>]
    ELSE [ok |-> TRUE,
          df |-> [i \in 1..Len(r.rows) |->
                    [chrom  |-> r.rows[i][1], start |-> r.rows[i][2],
                     end    |-> r.rows[i][3], col3  |-> r.rows[i][4],
                     col4   |-> r.rows[i][5], strand |-> r.rows[i][6]]]]

\* the path {sample_id}_YEP/{sample_id}_Motif_{motif_num}_FourColor.bed
\* inside an extracted folder
motif_file(sample_id, motif_num) == <<sample_id, motif_num>>

\* the while loop of load_all_motif_bed_files from motif_num on; folder maps
\* the file names present to their contents
RECURSIVE load_from(_, _, _, _)
load_from(folder, sample_id, motif_num, acc) ==
    IF motif_file(sample_id, motif_num) \notin DOMAIN folder
    THEN [ok |-> TRUE, dfs |-> acc]
    ELSE LET p == read_motif_bed(folder[motif_file(sample_id, motif_num)]) IN
         IF ~p.ok
         THEN [ok |-> FALSE, dfs |-> <<>>]
         ELSE load_from(folder, sample_id, motif_num + 1, Append(acc, p.df))

\* the first motif number tried
first_motif_num == 1

\* a loader that goes on past a missing motif number, up to the last file
RECURSIVE load_past_gaps(_, _, _, _)
load_past_gaps(folder, sample_id, motif_num, acc) ==
    IF \A f \in DOMAIN folder : f[1] # sample_id \/ f[2] < motif_num
    THEN [ok |-> TRUE, dfs |-> acc]
    ELSE IF motif_file(sample_id, motif_num) \notin DOMAIN folder
    THEN load_past_gaps(folder, sample_id, motif_num + 1, acc)
    ELSE LET p == read_motif_bed(folder[motif_file(sample_id, motif_num)]) IN
         IF ~p.ok
         THEN [ok |-> FALSE, dfs |-> <<>>]
         ELSE load_past_gaps(folder, sample_id, motif_num + 1,
                             Append(acc, p.df))

load_all_tolerating_gaps(folder, sample_id) ==
    load_past_gaps(folder, sample_id, first_motif_num, <<>>)

\* load_all_motif_bed_files: the dict motif number -> frame, as the sequence
\* of the frames of motif 1, 2, ... (a dict keeps insertion order)
load_all_motif_bed_files(folder, sample_id) ==
    load_from(folder, sample_id, first_motif_num, <<>>)

\* a loader that names the columns in read_csv(names=...), which pads a
\* short line with a missing value instead of raising
read_chexmix_bed_padding(file) ==
    LET r == read_csv(file) IN
    IF ~r.ok
    THEN [ok |-> FALSE, df |-> <<>>]
    ELSE [ok |-> TRUE,
          df |-> [i \in 1..Len(r.rows) |->
                    [chrom    |-> r.rows[i][1], start_abf1 |-> r.rows[i][2],
                     end_abf1 |-> r.rows[i][3], name       |-> r.rows[i][4],
                     score    |-> r.rows[i][5],
                     strand   |-> IF Len(r.rows[i]) >= 6 THEN r.rows[i][6]
                                  ELSE "nan"]]]

\* the part of load_tf_chexmix_bed after the download: read_csv, df.columns =
\* ChexmixColumns, then start/end renamed to start_abf1/end_abf1
read_chexmix_bed(file) ==
    LET r == read_csv(file) IN
    IF ~r.ok \/ ~columns_fit(r.ncols, ChexmixColumns)
    THEN [ok |-> FALSE, df |-> <<>>]
    ELSE [ok |-> TRUE,
          df |-> [i \in 1..Len(r.rows) |->
                    [chrom    |-> r.rows[i][1], start_abf1 |-> r.rows[i][2],
                     end_abf1 |-> r.rows[i][3], name       |-> r.rows[i][4],
                     score    |-> r.rows[i][5], strand     |-> r.rows[i][6]]]]

----------------------------------------------------------------------------
(* The interval join.                                                      *)

\* one row of pd.merge(chexmix_df, motif_df, on='chrom',
\* suffixes=('_abf1', '_four')): only strand is in both frames
merged_row(l, r) ==
    [chrom |-> l.chrom,
     start_abf1 |-> l.start_abf1, end_abf1 |-> l.end_abf1,
     name |-> l.name, score |-> l.score, strand_abf1 |-> l.strand,
     start |-> r.start, end |-> r.end, col3 |-> r.col3, col4 |-> r.col4,
     strand_four |-> r.strand]

\* the inner join on chrom, in the order of the left rows and, for one left
\* row, of the right rows
pd_merge(left, right) ==
    Flatten([i \in 1..Len(left) |->
               LET m == SelectSeq(right, LAMBDA r : r.chrom = left[i].chrom)
               IN  [j \in 1..Len(m) |-> merged_row(left[i], m[j])]])

\* condition with the span taken open at both ends
condition_open(m) == m.start_abf1 > m.start /\ m.start_abf1 < m.end

\* condition: the peak start lies in the closed motif span
condition(m) == m.start_abf1 >= m.start /\ m.start_abf1 <= m.end

\* filtered[[...]] with filtered['motif'] = motif_num
select_columns(m, motif_num) ==
    [chrom |-> m.chrom, start_abf1 |-> m.start_abf1, end_abf1 |-> m.end_abf1,
     score |-> m.score, strand_four |-> m.strand_four, motif |-> motif_num]

\* the values of a row in the columns of subset
row_key(row, subset) == [c \in subset |-> row[c]]

\* DataFrame.drop_duplicates(subset=subset), keep='first', from the rows df
\* on, seen being the keys of the rows before
RECURSIVE dedup_from(_, _, _, _)
dedup_from(df, subset, seen, acc) ==
    IF df = <<>> THEN acc
    ELSE IF row_key(Head(df), subset) \in seen
         THEN dedup_from(Tail(df), subset, seen, acc)
         ELSE dedup_from(Tail(df), subset,
                         seen \cup {row_key(Head(df), subset)},
                         Append(acc, Head(df)))

drop_duplicates(df, subset) == dedup_from(df, subset, {}, <<>>)

\* the columns of a frame made by select_columns
JoinedColumns ==
    {"chrom", "start_abf1", "end_abf1", "score", "strand_four", "motif"}

\* the body of the for loop of merge_motif_with_chexmix for one motif
filtered_for(motif_num, motif_df, ref_df) ==
    LET merged   == pd_merge(ref_df, motif_df)
        filtered == SelectSeq(merged, condition)
    IN  [i \in 1..Len(filtered) |-> select_columns(filtered[i], motif_num)]

\* all_results after the for loop over motif_dfs.items()
all_results_of(dfs, ref_df) ==
    [k \in 1..Len(dfs) |-> filtered_for(k, dfs[k], ref_df)]

merge_motif_with_chexmix(dfs, ref_df) ==
    LET all_results == all_results_of(dfs, ref_df)
    IN  IF all_results # <<>>
        THEN drop_duplicates(Flatten(all_results), JoinedColumns)
        ELSE <<>>

----------------------------------------------------------------------------
(* The artifact fetcher.                                                   *)

\* os.path.join(dest_folder, str(sample_id))
extract_path_of(sample_id) == <<"data_dir", sample_id>>

\* a fetcher that downloads whether or not the archive is there
zip_missing_unchecked(zs, sample_id) == TRUE

\* not os.path.isfile(zip_filename)
zip_missing(zs, sample_id) == zs[sample_id] = None

\* a fetcher that extracts whether or not the folder is there
dir_missing_unchecked(ds, sample_id) == TRUE

\* not os.path.isdir(extract_path)
dir_missing(ds, sample_id) == ds[sample_id] = None

\* download_and_extract_zip(sample_id, data_dir) on the disk (zs, ds), resp
\* being the answer requests.get would give.  An archive is a zip whose
\* members extract ("zip"), no zip at all ("notzip": ZipFile raises before
\* anything is written) or a zip with a damaged member ("badcrc": extractall
\* raises after it made the folder).
download_and_extract_zip(zs, ds, sample_id, resp) ==
    LET need == zip_missing(zs, sample_id)
        zs1  == IF need /\ resp.ok
                THEN [zs EXCEPT ![sample_id] = Some(resp.content)]
                ELSE zs
        base == [ok |-> FALSE, path |-> extract_path_of(sample_id),
                 zips |-> zs1, dirs |-> ds, requested |-> need,
                 downloaded |-> need /\ resp.ok, extracted |-> FALSE]
    IN  IF need /\ ~resp.ok
        THEN base                                   \* raise_for_status
        ELSE IF ~dir_missing(ds, sample_id)
        THEN [base EXCEPT !.ok = TRUE]
        ELSE LET z == The(zs1[sample_id]) IN
             CASE z.kind = "zip" ->
                    [base EXCEPT !.ok = TRUE, !.extracted = TRUE,
                                 !.dirs = [ds EXCEPT ![sample_id] =
                                                        Some(z.members)]]
               [] z.kind = "notzip" -> base
               [] OTHER ->
                    [base EXCEPT !.dirs = [ds EXCEPT ![sample_id] =
                                                        Some(<<>>)]]

----------------------------------------------------------------------------
(* The metadata reader.                                                    *)

\* a cell pandas reads as NaN
NaN == <<"nan">>

lower_char(c) == CASE c = "A" -> "a" [] c = "B" -> "b" [] c = "C" -> "c"
                   [] OTHER -> c

upper_char(c) == CASE c = "a" -> "A" [] c = "b" -> "B" [] c = "c" -> "C"
                   [] OTHER -> c

\* str.lower()
lower(name) == [i \in DOMAIN name |-> lower_char(name[i])]

RECURSIVE lstrip(_)
lstrip(name) ==
    IF name # <<>> /\ Head(name) = " " THEN lstrip(Tail(name)) ELSE name

RECURSIVE rstrip(_)
rstrip(name) ==
    IF name # <<>> /\ name[Len(name)] = " "
    THEN rstrip(SubSeq(name, 1, Len(name) - 1))
    ELSE name

\* str.strip()
strip(name) == rstrip(lstrip(name))

\* str.capitalize(): first character upper-cased, the rest lower-cased
capitalize(name) ==
    [i \in DOMAIN name |->
        IF i = 1 THEN upper_char(name[i]) ELSE lower_char(name[i])]

\* a reader that compares the names as they are
tf_matches_exactly(cell, name) == cell # NaN /\ cell = name

\* one row of the filter of get_replicates_for_tf: the cell stripped and
\* lower-cased against the requested name lower-cased; a NaN cell stays NaN
\* under .str and compares unequal
tf_matches(cell, name) == cell # NaN /\ lower(strip(cell)) = lower(name)

get_replicates_for_tf(name, md) ==
    LET df_tf == SelectSeq(md, LAMBDA row : tf_matches(row.tf, name))
        pairs == [i \in 1..Len(df_tf) |->
                    [replicate |-> df_tf[i].replicate,
                     sample_id |-> df_tf[i].sample_id]]
    IN  drop_duplicates(pairs, {"replicate", "sample_id"})

\* df['Yeast Target Common Name'].dropna().unique(): the distinct names in
\* the order they first appear
unique_tf_names(md) ==
    LET col  == [i \in 1..Len(md) |-> [tf |-> md[i].tf]]
        kept == SelectSeq(col, LAMBDA c : c.tf # NaN)
        uniq == drop_duplicates(kept, {"tf"})
    IN  [i \in 1..Len(uniq) |-> uniq[i].tf]

----------------------------------------------------------------------------
(* The reference peak loader and the per-TF pipeline.                      *)

\* download_tf_chexmix_bed on the cache cx: the file name is the capitalized
\* TF name; resp is the answer requests.get would give
download_tf_chexmix_bed(cx, name, resp) ==
    LET filename == capitalize(name)
        need     == cx[filename] = None
    IN  IF need /\ ~resp.ok
        THEN [ok |-> FALSE, cx |-> cx, out_path |-> filename]
        ELSE [ok |-> TRUE,
              cx |-> IF need THEN [cx EXCEPT ![filename] = Some(resp.content)]
                     ELSE cx,
              out_path |-> filename]

\* load_tf_chexmix_bed: download if needed, then read
load_tf_chexmix_bed(cx, name, resp) ==
    LET d == download_tf_chexmix_bed(cx, name, resp) IN
    IF ~d.ok
    THEN [ok |-> FALSE, cx |-> d.cx, df |-> <<>>]
    ELSE LET p == read_chexmix_bed(The(d.cx[d.out_path])) IN
         [ok |-> p.ok, cx |-> d.cx, df |-> p.df]

\* combined['sample_id'] = sample_id; combined['replicate'] = replicate_name
tagged(df, sample_id, replicate_name) ==
    [i \in 1..Len(df) |->
        [chrom |-> df[i].chrom, start_abf1 |-> df[i].start_abf1,
         end_abf1 |-> df[i].end_abf1, score |-> df[i].score,
         strand_four |-> df[i].strand_four, motif |-> df[i].motif,
         sample_id |-> sample_id, replicate |-> replicate_name]]

\* a loop body wrapped in try/except: the failing replicate is skipped
failure_skips_replicate(r) ==
    IF r.outcome = "raised" THEN [r EXCEPT !.outcome = "skipped"] ELSE r

\* the loop body of main has no handler: what a pass raises leaves main
failure_leaves_main(r) == r

\* one pass of the for loop of main over the replicate row: fetch, load the
\* motifs, and either raise, skip the replicate (no motif file) or join;
\* error tells whether the fetch or the parse failed
replicate_pass(zs, ds, row, ref_df, resp) ==
    LET f == download_and_extract_zip(zs, ds, row.sample_id, resp)
        none == [outcome |-> "raised", error |-> TRUE, zips |-> f.zips,
                 dirs |-> f.dirs, motif_dfs |-> <<>>, combined |-> <<>>]
    IN  IF ~f.ok THEN failure_leaves_main(none)
        ELSE LET l == load_all_motif_bed_files(The(f.dirs[row.sample_id]),
                                               row.sample_id)
             IN  IF ~l.ok THEN failure_leaves_main(none)
                 ELSE IF l.dfs = <<>>
                 THEN [none EXCEPT !.outcome = "skipped", !.error = FALSE]
                 ELSE [none EXCEPT
                         !.outcome = "appended", !.error = FALSE,
                         !.motif_dfs = l.dfs,
                         !.combined =
                            tagged(merge_motif_with_chexmix(l.dfs, ref_df),
                                   row.sample_id, row.replicate)]

\* the subset of the final drop_duplicates
KeyColumns == {"chrom", "start_abf1", "end_abf1", "score"}

AggregatedColumns == JoinedColumns \cup {"sample_id", "replicate"}

\* an aggregation that drops only rows equal in every column
concat_dedup_whole_rows(results) ==
    drop_duplicates(Flatten(results), AggregatedColumns)

\* pd.concat(aggregated_results).drop_duplicates(subset=KeyColumns)
concat_dedup(results) == drop_duplicates(Flatten(results), KeyColumns)

\* final_df.columns = ['chr', 'start', 'end', 'peakVal', 'strand', 'motif',
\* 'sample_id', 'replicate'], by position
renamed_row(r) ==
    [chr |-> r.chrom, start |-> r.start_abf1, end |-> r.end_abf1,
     peakVal |-> r.score, strand |-> r.strand_four, motif |-> r.motif,
     sample_id |-> r.sample_id, replicate |-> r.replicate]

rename_columns(df) == [i \in 1..Len(df) |-> renamed_row(df[i])]

\* {tf_name.lower()}_rossi_peak_w_strand.bed in output_dir
output_bed_file(name) == lower(name)

\* an all-TFs loop without try/except: the error leaves run_all_tfs
after_main_raised_uncaught == "uncaught"

\* where run_all_tfs goes on after main raised: the except clause prints the
\* error and the for loop takes the next name
after_main_raised == "next_tf"

----------------------------------------------------------------------------
(* Values of the variables a run does not use.                             *)

Samples == {"S1", "S2"}

NamePool ==
    {<<"A", "b">>, <<"a", "b">>, <<"A", "B">>, <<"A", "b", " ">>,
     <<" ", "a", "b">>, <<"C">>}

\* the names a ChExMix file may be cached under
CxNames == {capitalize(n) : n \in NamePool}

NoCx == [f \in CxNames |-> None]

\* what a call of main did: its status ("running", then "raised", "saved" or
\* "no_results"), the merge_motif_with_chexmix and to_csv calls it made, the
\* samples whose loop pass ended and the samples whose pass raised
NoRun == [tf |-> <<>>, status |-> "none", raised_in |-> "none", merges |-> 0,
          processed |-> <<>>, failed |-> <<>>, writes |-> 0, rows |-> 0]

DiskBlank ==
    /\ zips = [s \in Samples |-> None]
    /\ dirs = [s \in Samples |-> None]
    /\ cxfiles = NoCx
    /\ written = <<>>
    /\ calls = <<>>

DriverBlank ==
    /\ metadata = <<>>
    /\ unique_tfs = <<>>
    /\ tf_i = 0
    /\ attempted = <<>>
    /\ caught = <<>>

MainBlank ==
    /\ tf_name = <<>>
    /\ replicates = <<>>
    /\ rep_i = 0
    /\ aggregated_results = <<>>
    /\ runlog = NoRun

diskVars == <<zips, dirs, cxfiles, written, calls>>
driverVars == <<metadata, unique_tfs, tf_i, attempted, caught>>
mainVars == <<tf_name, replicates, rep_i, aggregated_results, runlog>>

----------------------------------------------------------------------------
(* SpecJoin: merge_motif_with_chexmix on every pair of small tables.       *)

Chroms == {"chrI", "chrII"}
Coords == 0..MaxCoord
Strands == {"+", "-"}

\* reference peaks: one base wide, scored, strand "."
JoinRefRows ==
    {[chrom |-> c, start_abf1 |-> s, end_abf1 |-> s + 1, name |-> "p",
      score |-> 5, strand |-> "."] : c \in Chroms, s \in Coords}

\* motif rows: every chrom, span with start <= end, and strand
JoinMotifRows ==
    {[chrom |-> c, start |-> iv[1], end |-> iv[2], col3 |-> "m", col4 |-> 0,
      strand |-> d] :
        c \in Chroms, iv \in {x \in Coords \X Coords : x[1] <= x[2]},
        d \in Strands}

\* reference tables of up to two rows
JoinRefTables == SeqsUpTo(JoinRefRows, 2)

\* no motif, one motif of up to two rows, or two motifs of up to one row
JoinMotifDfs ==
    {<<>>} \cup {<<t>> : t \in SeqsUpTo(JoinMotifRows, 2)}
           \cup {<<t, u>> : t \in SeqsUpTo(JoinMotifRows, 1),
                            u \in SeqsUpTo(JoinMotifRows, 1)}

InitJoin ==
    /\ pc = "join"
    /\ chexmix_df \in JoinRefTables
    /\ motif_dfs \in JoinMotifDfs
    /\ combined = <<>>
    /\ DiskBlank /\ DriverBlank /\ MainBlank

JoinCall ==
    /\ pc = "join"
    /\ combined' = merge_motif_with_chexmix(motif_dfs, chexmix_df)
    /\ pc' = "joined"
    /\ UNCHANGED <<chexmix_df, motif_dfs, diskVars, driverVars, mainVars>>

NextJoin == JoinCall

SpecJoin == InitJoin /\ [][NextJoin]_vars

\* the index pairs (i, j) of a reference row and a row of motif k on the same
\* chrom whose motif span holds the peak start
Qualifying(k) ==
    {ij \in (DOMAIN chexmix_df) \X (DOMAIN motif_dfs[k]) :
        LET R == chexmix_df[ij[1]]
            M == motif_dfs[k][ij[2]]
        IN  /\ R.chrom = M.chrom
            /\ M.start <= R.start_abf1
            /\ R.start_abf1 <= M.end}

\* the row the pair (R, M) of motif k is to contribute
Contribution(R, M, k) ==
    [chrom |-> R.chrom, start_abf1 |-> R.start_abf1, end_abf1 |-> R.end_abf1,
     score |-> R.score, strand_four |-> M.strand, motif |-> k]

\* C1: the join output holds exactly the rows {chrom, R.start, R.end,
\* R.score, M.strand, motif index} of the pairs (R, M) on one chrom with
\* M.start <= R.start <= M.end, each once; every such pair, and no other,
\* passes the filter of its motif; empty tables give zero rows.
C1_JoinIffInSpan ==
    pc = "joined" =>
        /\ Range(combined) =
             UNION {{Contribution(chexmix_df[ij[1]], motif_dfs[k][ij[2]], k) :
                        ij \in Qualifying(k)} : k \in DOMAIN motif_dfs}
        /\ Cardinality(Range(combined)) = Len(combined)
        /\ \A k \in DOMAIN motif_dfs :
             Len(all_results_of(motif_dfs, chexmix_df)[k])
                = Cardinality(Qualifying(k))
        /\ (chexmix_df = <<>> => combined = <<>>)
        /\ \A k \in DOMAIN motif_dfs :
             motif_dfs[k] = <<>> =>
                \A i \in DOMAIN combined : combined[i].motif # k

\* C1 witness: a pair on one chrom with the peak start on the closed end of
\* the span was joined, and a pair on one chrom outside the span was not
C1_Witness ==
    /\ pc = "joined"
    /\ \E k \in DOMAIN motif_dfs : \E ij \in Qualifying(k) :
          chexmix_df[ij[1]].start_abf1 = motif_dfs[k][ij[2]].end
    /\ \E k \in DOMAIN motif_dfs :
          \E i \in DOMAIN chexmix_df, j \in DOMAIN motif_dfs[k] :
             /\ chexmix_df[i].chrom = motif_dfs[k][j].chrom
             /\ <<i, j>> \notin Qualifying(k)
    /\ combined # <<>>

----------------------------------------------------------------------------
(* SpecLoad: load_all_motif_bed_files on every small sample folder.        *)

FileA == << <<"chrI", 0, 1, "m", 0, "+">> >>
FileB == << <<"chrI", 1, 2, "m", 0, "-">>, <<"chrII", 0, 2, "m", 0, "+">> >>
\* a bed file of five columns
FileFiveCols == << <<"chrI", 0, 1, "m", "+">> >>
\* a file without a line
FileEmpty == <<>>

LoadFiles == {FileA, FileB, FileFiveCols, FileEmpty}

\* the folders holding motif files of sample s for any set of motif numbers
LoadFolders(s) ==
    UNION {[{motif_file(s, n) : n \in N} -> LoadFiles] :
              N \in SUBSET (1..MaxMotif)}

InitLoad ==
    /\ pc = "load"
    /\ \E s \in Samples :
          /\ replicates = <<[replicate |-> "R1", sample_id |-> s]>>
          /\ \E folder \in LoadFolders(s) :
                dirs = [x \in Samples |-> IF x = s THEN Some(folder) ELSE None]
    /\ rep_i = 1
    /\ zips = [s \in Samples |-> None]
    /\ cxfiles = NoCx /\ written = <<>> /\ calls = <<>>
    /\ tf_name = <<>> /\ aggregated_results = <<>> /\ runlog = NoRun
    /\ chexmix_df = <<>> /\ motif_dfs = <<>> /\ combined = <<>>
    /\ DriverBlank

LoadCall ==
    /\ pc = "load"
    /\ LET s == replicates[rep_i].sample_id
           r == load_all_motif_bed_files(The(dirs[s]), s)
       IN  /\ pc' = IF r.ok THEN "loaded" ELSE "load_raised"
           /\ motif_dfs' = r.dfs
    /\ UNCHANGED <<chexmix_df, combined, diskVars, driverVars, mainVars>>

NextLoad == LoadCall

SpecLoad == InitLoad /\ [][NextLoad]_vars

LoadSample == replicates[1].sample_id
LoadFolder == The(dirs[LoadSample])
LoadPresent(k) == motif_file(LoadSample, k) \in DOMAIN LoadFolder

\* the largest n such that the files of motif 1..n all exist
LoadPrefix ==
    CHOOSE n \in 0..MaxMotif :
        /\ \A k \in 1..n : LoadPresent(k)
        /\ n < MaxMotif => ~LoadPresent(n + 1)

\* C3: the mapping returned has exactly the keys 1..n, n the largest index
\* with the files of 1..n all present, each key holding the rows of its file;
\* without a file for motif 1 the result is the empty mapping and nothing is
\* raised; the loader raises only on a file of 1..n it cannot parse.
C3_LoadContiguousPrefix ==
    pc \in {"loaded", "load_raised"} =>
        /\ pc = "loaded" =>
             /\ DOMAIN motif_dfs = 1..LoadPrefix
             /\ \A k \in 1..LoadPrefix :
                  LET f == LoadFolder[motif_file(LoadSample, k)] IN
                  /\ Len(motif_dfs[k]) = Len(f)
                  /\ \A i \in 1..Len(f) :
                       /\ motif_dfs[k][i].chrom = f[i][1]
                       /\ motif_dfs[k][i].start = f[i][2]
                       /\ motif_dfs[k][i].end = f[i][3]
                       /\ motif_dfs[k][i].strand = f[i][6]
        /\ LoadPrefix = 0 => pc = "loaded" /\ motif_dfs = <<>>
        /\ pc = "load_raised" =>
             \E k \in 1..LoadPrefix :
                LET f == LoadFolder[motif_file(LoadSample, k)] IN
                f = <<>> \/ Len(f[1]) # 6

\* C3 witness: files for motif 1 and 3 but none for motif 2, and the loader
\* returned the table of motif 1 alone
C3_Witness ==
    /\ pc = "loaded"
    /\ LoadPresent(1) /\ ~LoadPresent(2) /\ LoadPresent(3)
    /\ Len(motif_dfs) = 1

----------------------------------------------------------------------------
(* SpecFetch: download_and_extract_zip called again and again on a disk.   *)

\* what the archive of sample s may be
Archives(s) ==
    {[kind |-> "zip", members |-> [f \in {motif_file(s, 1)} |-> FileA]],
     [kind |-> "notzip", members |-> <<>>],
     [kind |-> "badcrc", members |-> <<>>]}

NoContent == [kind |-> "notzip", members |-> <<>>]

\* the answers of requests.get for the archive of s: an HTTP error or a body
Responses(s) ==
    {[ok |-> FALSE, content |-> NoContent]}
        \cup {[ok |-> TRUE, content |-> a] : a \in Archives(s)}

\* the answers that matter to a call: none when no request is made
ResponsesFor(zs, s) ==
    IF zip_missing(zs, s) THEN Responses(s)
    ELSE {[ok |-> FALSE, content |-> NoContent]}

InitFetch ==
    /\ pc = "fetch"
    /\ zips \in [Samples -> {None} \cup {Some(a) : a \in UNION {Archives(s) : s \in Samples}}]
    /\ \A s \in Samples : zips[s] \subseteq Archives(s)
    /\ dirs \in [Samples -> {None, Some(<<>>)}
                    \cup {Some(a.members) : a \in UNION {Archives(s) : s \in Samples}}]
    /\ \A s \in Samples :
          dirs[s] \subseteq {<<>>} \cup {a.members : a \in Archives(s)}
    /\ cxfiles = NoCx /\ written = <<>> /\ calls = <<>>
    /\ chexmix_df = <<>> /\ motif_dfs = <<>> /\ combined = <<>>
    /\ DriverBlank /\ MainBlank

FetchCall(s) ==
    /\ pc = "fetch"
    /\ Len(calls) < MaxCalls
    /\ \E resp \in ResponsesFor(zips, s) :
          LET r == download_and_extract_zip(zips, dirs, s, resp) IN
          /\ zips' = r.zips
          /\ dirs' = r.dirs
          /\ calls' = Append(calls,
                [sample_id |-> s, ok |-> r.ok, path |-> r.path,
                 requested |-> r.requested, downloaded |-> r.downloaded,
                 extracted |-> r.extracted,
                 changed |-> r.zips # zips \/ r.dirs # dirs])
    /\ UNCHANGED <<pc, cxfiles, written, chexmix_df, motif_dfs, combined,
                   driverVars, mainVars>>

NextFetch == \E s \in Samples : FetchCall(s)

SpecFetch == InitFetch /\ [][NextFetch]_vars

\* C4: of two calls for one sample at most one writes the archive and at
\* most one extracts it; and once a call for a sample has succeeded, every
\* later call for that sample succeeds with the same path, asks for no
\* download, extracts nothing and leaves the disk as it was.
C4_FetchIdempotent ==
    \A i \in DOMAIN calls : \A j \in DOMAIN calls :
        (i < j /\ calls[i].sample_id = calls[j].sample_id) =>
            /\ ~(calls[i].downloaded /\ calls[j].downloaded)
            /\ ~(calls[i].extracted /\ calls[j].extracted)
            /\ calls[i].ok =>
                  /\ calls[j].ok
                  /\ calls[j].path = calls[i].path
                  /\ ~calls[j].requested
                  /\ ~calls[j].downloaded
                  /\ ~calls[j].extracted
                  /\ ~calls[j].changed

\* C4 witness: a first call downloaded and extracted, and the next call for
\* the same sample returned the same path
C4_Witness ==
    /\ Len(calls) >= 2
    /\ calls[1].sample_id = calls[2].sample_id
    /\ calls[1].ok /\ calls[1].downloaded /\ calls[1].extracted
    /\ calls[2].ok /\ calls[2].path = calls[1].path

----------------------------------------------------------------------------
(* SpecMeta: get_replicates_for_tf and the name list of run_all_tfs.       *)

Replicates == {"R1", "R2"}

MetaRows ==
    [tf : NamePool \cup {NaN}, replicate : Replicates, sample_id : Samples]

InitMeta ==
    /\ pc = "meta"
    /\ metadata \in SeqsUpTo(MetaRows, MaxMetaRows)
    /\ unique_tfs = <<>> /\ tf_i = 0 /\ attempted = <<>> /\ caught = <<>>
    /\ chexmix_df = <<>> /\ motif_dfs = <<>> /\ combined = <<>>
    /\ DiskBlank /\ MainBlank

\* get_replicates_for_tf called with any name
MetaQuery(name) ==
    /\ pc = "meta"
    /\ tf_name' = name
    /\ replicates' = get_replicates_for_tf(name, metadata)
    /\ unique_tfs' = unique_tf_names(metadata)
    /\ pc' = "queried"
    /\ UNCHANGED <<metadata, tf_i, attempted, caught, rep_i,
                   aggregated_results, runlog, chexmix_df, motif_dfs,
                   combined, diskVars>>

NextMeta == \E name \in NamePool : MetaQuery(name)

SpecMeta == InitMeta /\ [][NextMeta]_vars

\* the (replicate, sample) pairs of the rows whose name equals the requested
\* one, both trimmed and compared without case
PairsTrimmedBoth(name) ==
    {[replicate |-> metadata[i].replicate, sample_id |-> metadata[i].sample_id] :
        i \in {k \in DOMAIN metadata :
                 /\ metadata[k].tf # NaN
                 /\ lower(strip(metadata[k].tf)) = lower(strip(name))}}

\* C9: the reader returns exactly the distinct pairs of the rows whose name
\* equals the requested one when both are trimmed and compared without case
\* (so a name taken from the sheet selects the rows it was taken from).
C9_TrimmedCaseInsensitive ==
    pc = "queried" =>
        /\ Range(replicates) = PairsTrimmedBoth(tf_name)
        /\ Cardinality(Range(replicates)) = Len(replicates)
        /\ \A i \in DOMAIN metadata :
             metadata[i].tf = tf_name =>
                [replicate |-> metadata[i].replicate,
                 sample_id |-> metadata[i].sample_id] \in Range(replicates)

----------------------------------------------------------------------------
(* SpecMain: run_all_tfs, or main called for one name, on a small sheet,   *)
(* with every answer the two remote sites may give.                        *)

\* a motif file whose only span is on another chromosome than the peaks
FileC == << <<"chrII", 0, 2, "m", 0, "+">> >>

\* a reference file of two peaks on the same span with different scores,
\* and one of five columns
CxGood == << <<"chrI", 1, 2, "p", 5, ".">>, <<"chrI", 1, 2, "q", 7, ".">> >>
CxFiveCols == << <<"chrI", 1, 2, "p", 5>> >>

MainArchives(s) ==
    {[kind |-> "zip", members |-> <<>>],
     [kind |-> "zip", members |-> (motif_file(s, 1) :> FileA)],
     [kind |-> "zip", members |-> (motif_file(s, 1) :> FileC)],
     [kind |-> "zip",
      members |-> (motif_file(s, 1) :> FileA) @@ (motif_file(s, 2) :> FileB)],
     [kind |-> "zip", members |-> (motif_file(s, 1) :> FileFiveCols)]}

Failed == [ok |-> FALSE, content |-> NoContent]

ZipResponsesFor(zs, s) ==
    IF zip_missing(zs, s)
    THEN {Failed} \cup {[ok |-> TRUE, content |-> a] : a \in MainArchives(s)}
    ELSE {Failed}

CxResponsesFor(cx, name) ==
    IF cx[capitalize(name)] = None
    THEN {[ok |-> FALSE, content |-> <<>>],
          [ok |-> TRUE, content |-> CxGood],
          [ok |-> TRUE, content |-> CxFiveCols]}
    ELSE {[ok |-> FALSE, content |-> <<>>]}

\* two TFs, and the first with a trailing blank
MainNames == {<<"A", "b">>, <<"C">>, <<"A", "b", " ">>}

\* the (replicate, sample) pairs of the sheet
MainPairs == {<<"R1", "S1">>, <<"R2", "S2">>, <<"R1", "S2">>}

MainMetaRows ==
    {[tf |-> n, replicate |-> p[1], sample_id |-> p[2]] :
        n \in MainNames \cup {NaN}, p \in MainPairs}

InitMain ==
    /\ pc = "start"
    /\ metadata \in SeqsUpTo(MainMetaRows, MaxMetaRows)
    /\ unique_tfs = <<>> /\ tf_i = 0 /\ attempted = <<>> /\ caught = <<>>
    /\ chexmix_df = <<>> /\ motif_dfs = <<>> /\ combined = <<>>
    /\ DiskBlank /\ MainBlank

\* run_all_tfs up to its for loop
RunAllStart ==
    /\ pc = "start"
    /\ unique_tfs' = unique_tf_names(metadata)
    /\ pc' = "next_tf"
    /\ UNCHANGED <<metadata, tf_i, attempted, caught, chexmix_df, motif_dfs,
                   combined, diskVars, mainVars>>

\* main(name) up to the print of the number of replicates
MainEnter(name) ==
    /\ tf_name' = name
    /\ replicates' = get_replicates_for_tf(name, metadata)
    /\ attempted' = Append(attempted, name)
    /\ runlog' = [NoRun EXCEPT !.tf = name, !.status = "running"]
    /\ rep_i' = 1
    /\ aggregated_results' = <<>>
    /\ chexmix_df' = <<>> /\ motif_dfs' = <<>> /\ combined' = <<>>
    /\ pc' = "main_chexmix"
    /\ UNCHANGED <<metadata, caught, diskVars>>

\* main called for one name, outside run_all_tfs
DirectMain(name) ==
    /\ pc = "start"
    /\ MainEnter(name)
    /\ UNCHANGED <<unique_tfs, tf_i>>

\* the for loop of run_all_tfs takes the next name and calls main
RunAllNext ==
    /\ pc = "next_tf"
    /\ tf_i < Len(unique_tfs)
    /\ tf_i' = tf_i + 1
    /\ MainEnter(unique_tfs[tf_i + 1])
    /\ UNCHANGED unique_tfs

\* the for loop of run_all_tfs is over
RunAllDone ==
    /\ pc = "next_tf"
    /\ tf_i = Len(unique_tfs)
    /\ pc' = "done"
    /\ UNCHANGED <<metadata, unique_tfs, tf_i, attempted, caught, chexmix_df,
                   motif_dfs, combined, diskVars, mainVars>>

\* main was called by run_all_tfs
InRunAll == tf_i > 0

\* main raises: into the except clause of run_all_tfs, or out of the program
Raise(stage, sample_ids) ==
    /\ runlog' = [runlog EXCEPT !.status = "raised", !.raised_in = stage,
                                !.failed = runlog.failed \o sample_ids]
    /\ caught' = IF InRunAll THEN Append(caught, tf_name) ELSE caught
    /\ pc' = IF InRunAll THEN after_main_raised ELSE "uncaught"

\* main returns
ReturnPc == IF InRunAll THEN "next_tf" ELSE "returned"

\* chexmix_df = load_tf_chexmix_bed(tf_name, data_dir)
MainLoadChexmix ==
    /\ pc = "main_chexmix"
    /\ \E resp \in CxResponsesFor(cxfiles, tf_name) :
          LET r == load_tf_chexmix_bed(cxfiles, tf_name, resp) IN
          /\ cxfiles' = r.cx
          /\ IF r.ok
             THEN /\ chexmix_df' = r.df
                  /\ pc' = "main_rep"
                  /\ UNCHANGED <<runlog, caught>>
             ELSE /\ Raise("chexmix", <<>>)
                  /\ UNCHANGED chexmix_df
    /\ UNCHANGED <<metadata, unique_tfs, tf_i, attempted, tf_name, replicates,
                   rep_i, aggregated_results, motif_dfs, combined, zips, dirs,
                   written, calls>>

\* one pass of the for loop of main
MainReplicate ==
    /\ pc = "main_rep"
    /\ rep_i <= Len(replicates)
    /\ LET row == replicates[rep_i] IN
       \E resp \in ZipResponsesFor(zips, row.sample_id) :
          LET r == replicate_pass(zips, dirs, row, chexmix_df, resp) IN
          /\ zips' = r.zips
          /\ dirs' = r.dirs
          /\ CASE r.outcome = "raised" ->
                    /\ Raise("replicate", <<row.sample_id>>)
                    /\ UNCHANGED <<rep_i, aggregated_results, motif_dfs,
                                   combined>>
               [] r.outcome = "skipped" ->
                    /\ rep_i' = rep_i + 1
                    /\ runlog' = [runlog EXCEPT
                          !.processed = Append(runlog.processed, row.sample_id),
                          !.failed = IF r.error
                                     THEN Append(runlog.failed, row.sample_id)
                                     ELSE runlog.failed]
                    /\ UNCHANGED <<pc, caught, aggregated_results, motif_dfs,
                                   combined>>
               [] OTHER ->
                    /\ rep_i' = rep_i + 1
                    /\ motif_dfs' = r.motif_dfs
                    /\ combined' = r.combined
                    /\ aggregated_results' =
                          Append(aggregated_results, r.combined)
                    /\ runlog' = [runlog EXCEPT
                          !.processed = Append(runlog.processed, row.sample_id),
                          !.merges = runlog.merges + 1]
                    /\ UNCHANGED <<pc, caught>>
    /\ UNCHANGED <<metadata, unique_tfs, tf_i, attempted, tf_name, replicates,
                   chexmix_df, cxfiles, written, calls>>

\* main after its for loop: aggregate and save, or report no results
MainFinish ==
    /\ pc = "main_rep"
    /\ rep_i > Len(replicates)
    /\ IF aggregated_results # <<>>
       THEN LET final_df == rename_columns(concat_dedup(aggregated_results))
            IN  /\ written' = Append(written,
                       [path |-> output_bed_file(tf_name), table |-> final_df])
                /\ runlog' = [runlog EXCEPT !.status = "saved",
                                            !.writes = runlog.writes + 1,
                                            !.rows = Len(final_df)]
       ELSE /\ runlog' = [runlog EXCEPT !.status = "no_results"]
            /\ UNCHANGED written
    /\ pc' = ReturnPc
    /\ UNCHANGED <<metadata, unique_tfs, tf_i, attempted, caught, tf_name,
                   replicates, rep_i, chexmix_df, motif_dfs, combined,
                   aggregated_results, zips, dirs, cxfiles, calls>>

NextMain ==
    \/ RunAllStart
    \/ \E name \in MainNames : DirectMain(name)
    \/ RunAllNext
    \/ RunAllDone
    \/ MainLoadChexmix
    \/ MainReplicate
    \/ MainFinish

SpecMain == InitMain /\ [][NextMain]_vars

\* main has ended, one way or the other
MainEnded == runlog.status \in {"raised", "saved", "no_results"}

----------------------------------------------------------------------------
(* The aggregator.                                                         *)

\* the concatenation the final drop_duplicates of the last main worked on
AggInput == Flatten(aggregated_results)

\* the table the last main saved
AggOutput == written[Len(written)].table

KeyOf(r) == <<r.chrom, r.start_abf1, r.end_abf1, r.score>>

\* the rows of the concatenation no earlier row shares the key of
FirstOfKey ==
    {i \in DOMAIN AggInput :
        \A j \in 1..(i - 1) : KeyOf(AggInput[j]) # KeyOf(AggInput[i])}

\* the n-th of them
NthFirst(n) ==
    CHOOSE i \in FirstOfKey : Cardinality({j \in FirstOfKey : j <= i}) = n

\* the place of the replicate a per-replicate table is tagged with
PlaceOf(t) ==
    CHOOSE k \in DOMAIN replicates :
        /\ replicates[k].sample_id = t[1].sample_id
        /\ replicates[k].replicate = t[1].replicate

\* C2: the table main saves holds, for each key (chrom, start, end, score)
\* of the concatenated per-replicate results, exactly the first row of that
\* key in concatenation order, the replicates being concatenated in the
\* order of the replicate table.
C2_AggregatorKeepsFirst ==
    runlog.status = "saved" =>
        /\ Len(AggOutput) = Cardinality(FirstOfKey)
        /\ \A n \in DOMAIN AggOutput :
             LET r == AggInput[NthFirst(n)]
                 o == AggOutput[n]
             IN  /\ o.chr = r.chrom /\ o.start = r.start_abf1
                 /\ o.end = r.end_abf1 /\ o.peakVal = r.score
                 /\ o.strand = r.strand_four /\ o.motif = r.motif
                 /\ o.sample_id = r.sample_id /\ o.replicate = r.replicate
        /\ \A a \in DOMAIN aggregated_results :
             \A b \in DOMAIN aggregated_results :
                (/\ a < b
                 /\ aggregated_results[a] # <<>>
                 /\ aggregated_results[b] # <<>>)
                    => PlaceOf(aggregated_results[a])
                          < PlaceOf(aggregated_results[b])

\* C2 witness: main saved a table made from two rows of one key that came
\* from different samples
C2_Witness ==
    /\ runlog.status = "saved"
    /\ \E i \in DOMAIN AggInput : \E j \in DOMAIN AggInput :
          /\ i < j
          /\ KeyOf(AggInput[i]) = KeyOf(AggInput[j])
          /\ AggInput[i].sample_id # AggInput[j].sample_id

----------------------------------------------------------------------------
(* Errors in the all-TFs loop and in main.                                 *)

\* C5: when run_all_tfs is over, main has been called exactly once for each
\* distinct non-null name of the sheet, in order, whatever the calls before
\* did, and a call that raised was caught at the loop.
C5_EveryTfAttempted ==
    /\ (pc = "done" \/ (pc = "uncaught" /\ InRunAll)) =>
          /\ attempted = unique_tfs
          /\ Range(unique_tfs)
                = {metadata[i].tf : i \in DOMAIN metadata} \ {NaN}
          /\ Cardinality(Range(unique_tfs)) = Len(unique_tfs)
    /\ (InRunAll /\ runlog.status = "raised") =>
          /\ pc \in {"next_tf", "done"}
          /\ caught # <<>> /\ caught[Len(caught)] = tf_name

\* C5 witness: the run is over, the first name raised and a later name was
\* attempted all the same
C5_Witness ==
    /\ pc = "done"
    /\ Len(attempted) >= 2
    /\ caught # <<>> /\ caught[1] = attempted[1]

\* C6 as stated: a sample whose fetch or parse fails is skipped, main does
\* not raise, and every replicate of the TF gets its pass.
C6_SampleFailureSkipped ==
    (MainEnded /\ runlog.failed # <<>>) =>
        /\ runlog.status # "raised"
        /\ Len(runlog.processed) + Len(runlog.failed) = Len(replicates)

\* C6 amended: a sample whose fetch or parse fails ends main there: main
\* raises out of the loop pass of that replicate, no later replicate gets a
\* pass, nothing is saved for the TF, and under run_all_tfs the error is
\* caught at the TF.
C6_SampleFailureEndsMain ==
    runlog.failed # <<>> =>
        /\ runlog.status = "raised" /\ runlog.raised_in = "replicate"
        /\ pc \notin {"main_chexmix", "main_rep"}
        /\ runlog.failed = <<replicates[rep_i].sample_id>>
        /\ Len(runlog.processed) = rep_i - 1
        /\ runlog.writes = 0
        /\ InRunAll => (caught # <<>> /\ caught[Len(caught)] = tf_name)

\* C6 witness: the first of two replicates failed and the second never got
\* its pass, under run_all_tfs
C6_Witness ==
    /\ runlog.failed # <<>>
    /\ rep_i = 1 /\ Len(replicates) = 2
    /\ InRunAll /\ pc = "next_tf"

\* C7 as stated: a main whose replicates gave no joined row reports no
\* results and writes nothing; a file is saved only with at least one row.
C7_NoRowsNoFile ==
    (MainEnded /\ runlog.status # "raised"
       /\ \A k \in DOMAIN aggregated_results : aggregated_results[k] = <<>>)
        => (runlog.status = "no_results" /\ runlog.writes = 0)

\* C8 as stated: a main whose name matches no row ends with no results,
\* without raising, whatever the reference download does.
C8_NoReplicatesSucceeds ==
    (MainEnded /\ replicates = <<>>)
        => (runlog.status = "no_results" /\ runlog.writes = 0)

\* the cached reference file of the current TF has five columns
FiveColumnReference ==
    /\ cxfiles[capitalize(tf_name)] # None
    /\ The(cxfiles[capitalize(tf_name)]) # <<>>
    /\ Len(The(cxfiles[capitalize(tf_name)])[1]) = 5

\* C10: with a reference file of five columns main raises in
\* load_tf_chexmix_bed, before any pass of its loop: no join is made and
\* nothing is saved.
C10_FiveColumnsRaiseBeforeJoin ==
    (runlog.status # "none" /\ pc # "main_chexmix" /\ FiveColumnReference) =>
        /\ runlog.status = "raised" /\ runlog.raised_in = "chexmix"
        /\ runlog.merges = 0 /\ runlog.writes = 0
        /\ runlog.processed = <<>> /\ aggregated_results = <<>>

\* C10 witness: a TF with replicates and a five-column reference file raised
C10_Witness ==
    /\ runlog.status = "raised"
    /\ FiveColumnReference
    /\ replicates # <<>>

============================================================================
